---- MODULE Spec2Model ----
(***************************************************************************)
(* Model of interpolate_numba of 1D_interpolation.ipynb: the temporal      *)
(* gap filler that walks a (time, row, column) volume with a triple loop   *)
(* and replaces no_data samples by the mean of neighbours on the z axis.   *)
(*                                                                         *)
(* A volume is a function from cells <<z, y, x>> to integers; shape is     *)
(* <<T, R, C>> = arr.shape.  One step of the model is one iteration of the *)
(* innermost loop body (one read window of arr, one store to result).      *)
(* The notebook runs on a Python 2 kernel, so "/" between integers is      *)
(* floor division and int() of that integer is the integer itself; the     *)
(* store into the int16 result array keeps the low 16 bits.                *)
(***************************************************************************)
EXTENDS Integers, Sequences, FiniteSets, TLC

VARIABLES arr, shape, no_data, result, x, y, z, pc, writes, out, prev, calls,
          dtype, result_dtype, access, tile, wpos

vars == <<arr, shape, no_data, result, x, y, z, pc, writes, out, prev, calls,
          dtype, result_dtype, access, tile, wpos>>

(* ---------------------------- bounds ----------------------------------- *)
MaxT == 6        \* longest trace, and most cells of a volume
MaxR == 2        \* most rows
MaxC == 2        \* most columns
MaxCalls == 2    \* calls made on the same input (the notebook's %timeit)
NumWorkers == 2  \* workers of a tiled run

(* ------------------------- program constants --------------------------- *)
DefaultNoData == -32768
Int16Min == -32768
Int16Max == 32767
Int16Span == 65536
ResultBits == 16       \* dtype=np.int16 of the result array

(* Sample values the inputs are drawn from: the default sentinel, a       *)
(* negative odd value and a positive even value (their sum is negative    *)
(* and odd).  The caller's sentinel is the default or the positive value, *)
(* so that valid samples lie on either side of the sentinel.  All are     *)
(* representable in int16.                                                *)
Vals == {DefaultNoData, -7, 4}
NoDataVals == {DefaultNoData, 4}

(* Sample values and sentinels of a wider input array: one of them does *)
(* not fit in 16 bits.  Widths, in bits, of such an array.                *)
WideVals == {DefaultNoData, -7, 40000}
WideNoDataVals == {DefaultNoData, 40000}
WideDtypes == {32, 64}

(* The worked trace of the specification (T = 7, default sentinel).       *)
ExampleTrace == <<5, DefaultNoData, 7, DefaultNoData, DefaultNoData, 9, DefaultNoData>>

(* ------------------------------ shapes --------------------------------- *)
Cells(s) == (0..(s[1]-1)) \X (0..(s[2]-1)) \X (0..(s[3]-1))

Shapes == {s \in (1..MaxT) \X (1..MaxR) \X (1..MaxC) : s[1] * s[2] * s[3] <= MaxT}

(* the (row, column) pairs of a volume: one trace each *)
Traces(s) == (0..(s[2]-1)) \X (0..(s[3]-1))

ExampleVolume == [c \in Cells(<<7, 1, 1>>) |-> ExampleTrace[c[1] + 1]]

None == <<>>

(* np.zeros_like(arr, dtype=np.int16) *)
zeros_like(s) == [c \in Cells(s) |-> 0]

(* len(arr[:,0,0]) *)
len_z(s) == s[1]

(* arr[i, yy, xx]: a negative index counts from the end of the axis.      *)
At(a, s, i, yy, xx) == IF i < 0 THEN a[<<i + s[1], yy, xx>>] ELSE a[<<i, yy, xx>>]

(* PyDiv with the quotient rounded toward zero instead of down.           *)
PyDiv_trunc(n, d) == IF n >= 0 THEN n \div d ELSE -((-n) \div d)

(* PyDiv with the division left out: the sum itself.                     *)
PyDiv_nodiv(n, d) == n

(* Python 2 "/" on integers: floor division.                              *)
PyDiv(n, d) == IF n >= 0 THEN n \div d ELSE -((-n + d - 1) \div d)

(* astype_int16 for a result array of the input's own width: the value   *)
(* is stored as it is.                                                    *)
astype_like_input(v) == v

(* Store into an int16 array: the low 16 bits, two's complement.          *)
astype_int16(v) == ((v - Int16Min) % Int16Span) + Int16Min

(* ------------------------ the neighbour rules -------------------------- *)
(* take_second_left that falls back on right alone when more_left is the *)
(* sentinel.                                                             *)
take_second_left_onesided(a, s, nd, zz, yy, xx) ==
    LET right == At(a, s, zz + 1, yy, xx)
        more_left == At(a, s, zz - 2, yy, xx)
    IN  IF more_left = nd THEN right ELSE PyDiv(more_left + right, 2)

(* take_second_left that looks a third step to the left when more_left  *)
(* is the sentinel.                                                       *)
take_second_left_far(a, s, nd, zz, yy, xx) ==
    LET value == At(a, s, zz, yy, xx)
        right == At(a, s, zz + 1, yy, xx)
        more_left == At(a, s, zz - 2, yy, xx)
        far_left == At(a, s, zz - 3, yy, xx)
    IN  IF more_left # nd THEN PyDiv(more_left + right, 2)
        ELSE IF far_left # nd THEN PyDiv(far_left + right, 2)
        ELSE value

(* take_second_left with the second neighbour read one step too near.    *)
take_second_left_near(a, s, nd, zz, yy, xx) ==
    LET value == At(a, s, zz, yy, xx)
        right == At(a, s, zz + 1, yy, xx)
        more_left == At(a, s, zz - 1, yy, xx)
    IN  IF more_left = nd THEN value ELSE PyDiv(more_left + right, 2)

(* elif left == no_data and right != no_data *)
take_second_left(a, s, nd, zz, yy, xx) ==
    LET value == At(a, s, zz, yy, xx)
        right == At(a, s, zz + 1, yy, xx)
        more_left == At(a, s, zz - 2, yy, xx)
    IN  IF more_left = nd THEN value ELSE PyDiv(more_left + right, 2)

(* take_second_right that falls back on left alone when more_right is   *)
(* the sentinel.                                                         *)
take_second_right_onesided(a, s, nd, zz, yy, xx) ==
    LET left == At(a, s, zz - 1, yy, xx)
        more_right == At(a, s, zz + 2, yy, xx)
    IN  IF more_right = nd THEN left ELSE PyDiv(more_right + left, 2)

(* take_second_right with the second neighbour read one step too near.   *)
take_second_right_near(a, s, nd, zz, yy, xx) ==
    LET value == At(a, s, zz, yy, xx)
        left == At(a, s, zz - 1, yy, xx)
        more_right == At(a, s, zz + 1, yy, xx)
    IN  IF more_right = nd THEN value ELSE PyDiv(more_right + left, 2)

(* elif left != no_data and right == no_data *)
take_second_right(a, s, nd, zz, yy, xx) ==
    LET value == At(a, s, zz, yy, xx)
        left == At(a, s, zz - 1, yy, xx)
        more_right == At(a, s, zz + 2, yy, xx)
    IN  IF more_right = nd THEN value ELSE PyDiv(more_right + left, 2)

(* take_second_both with "or" in place of "and".                         *)
take_second_both_or(a, s, nd, zz, yy, xx) ==
    LET value == At(a, s, zz, yy, xx)
        more_left == At(a, s, zz - 2, yy, xx)
        more_right == At(a, s, zz + 2, yy, xx)
    IN  IF more_left # nd \/ more_right # nd
        THEN PyDiv(more_left + more_right, 2)
        ELSE value

(* elif left == no_data and right == no_data *)
take_second_both(a, s, nd, zz, yy, xx) ==
    LET value == At(a, s, zz, yy, xx)
        more_left == At(a, s, zz - 2, yy, xx)
        more_right == At(a, s, zz + 2, yy, xx)
    IN  IF more_left # nd /\ more_right # nd
        THEN PyDiv(more_left + more_right, 2)
        ELSE value

(* gap_branch without the "left == no_data and z == 1" test.             *)
gap_branch_no_left_guard(a, s, nd, zz, yy, xx) ==
    LET left == At(a, s, zz - 1, yy, xx)
        right == At(a, s, zz + 1, yy, xx)
    IN  IF left # nd /\ right # nd THEN "left_right"
        ELSE IF right = nd /\ zz = len_z(s) - 2 THEN "boundary_right"
        ELSE IF left = nd /\ right # nd THEN "second_left"
        ELSE IF left # nd /\ right = nd THEN "second_right"
        ELSE IF left = nd /\ right = nd THEN "second_both"
        ELSE "else"

(* gap_branch with left read in column 0 whatever x is.                   *)
gap_branch_col0(a, s, nd, zz, yy, xx) ==
    LET left == At(a, s, zz - 1, yy, 0)
        right == At(a, s, zz + 1, yy, xx)
    IN  IF left # nd /\ right # nd THEN "left_right"
        ELSE IF left = nd /\ zz = 1 THEN "boundary_left"
        ELSE IF right = nd /\ zz = len_z(s) - 2 THEN "boundary_right"
        ELSE IF left = nd /\ right # nd THEN "second_left"
        ELSE IF left # nd /\ right = nd THEN "second_right"
        ELSE IF left = nd /\ right = nd THEN "second_both"
        ELSE "else"

(* elif value == no_data: which branch of the ladder over left and right  *)
(* is taken at an interior no_data sample                                 *)
gap_branch(a, s, nd, zz, yy, xx) ==
    LET left == At(a, s, zz - 1, yy, xx)
        right == At(a, s, zz + 1, yy, xx)
    IN  IF left # nd /\ right # nd THEN "left_right"
        ELSE IF left = nd /\ zz = 1 THEN "boundary_left"
        ELSE IF right = nd /\ zz = len_z(s) - 2 THEN "boundary_right"
        ELSE IF left = nd /\ right # nd THEN "second_left"
        ELSE IF left # nd /\ right = nd THEN "second_right"
        ELSE IF left = nd /\ right = nd THEN "second_both"
        ELSE "else"

(* branch with the first-sample test off by one (z == 1).                *)
branch_first_off(a, s, nd, zz, yy, xx) ==
    LET value == At(a, s, zz, yy, xx)
    IN  IF zz = 1 THEN "first"
        ELSE IF zz = len_z(s) - 1 THEN "last"
        ELSE IF value = nd THEN gap_branch(a, s, nd, zz, yy, xx)
        ELSE "valid"

(* branch with the sentinel test written as an ordering (value <= nd).   *)
branch_le(a, s, nd, zz, yy, xx) ==
    LET value == At(a, s, zz, yy, xx)
    IN  IF zz = 0 THEN "first"
        ELSE IF zz = len_z(s) - 1 THEN "last"
        ELSE IF value <= nd THEN gap_branch(a, s, nd, zz, yy, xx)
        ELSE "valid"

(* which branch of the loop body is taken at (z, y, x) *)
branch(a, s, nd, zz, yy, xx) ==
    LET value == At(a, s, zz, yy, xx)
    IN  IF zz = 0 THEN "first"
        ELSE IF zz = len_z(s) - 1 THEN "last"
        ELSE IF value = nd THEN gap_branch(a, s, nd, zz, yy, xx)
        ELSE "valid"

(* the body of the innermost loop up to the store: new_value at (z, y, x) *)
new_value(a, s, nd, zz, yy, xx) ==
    LET value == At(a, s, zz, yy, xx)
        b == branch(a, s, nd, zz, yy, xx)
    IN  CASE b = "left_right" ->
                 PyDiv(At(a, s, zz - 1, yy, xx) + At(a, s, zz + 1, yy, xx), 2)
          [] b = "second_left" -> take_second_left(a, s, nd, zz, yy, xx)
          [] b = "second_right" -> take_second_right(a, s, nd, zz, yy, xx)
          [] b = "second_both" -> take_second_both(a, s, nd, zz, yy, xx)
          [] OTHER -> value

(* the subscripts the loop body reads arr at in iteration (z, y, x), as    *)
(* written in the code (before a negative index is counted from the end)  *)
read_cells(a, s, nd, zz, yy, xx) ==
    LET b == branch(a, s, nd, zz, yy, xx)
    IN  {<<zz, yy, xx>>}
        \cup (IF b \in {"first", "last", "valid"}
              THEN {} ELSE {<<zz - 1, yy, xx>>, <<zz + 1, yy, xx>>})
        \cup (IF b \in {"second_left", "second_both"} THEN {<<zz - 2, yy, xx>>} ELSE {})
        \cup (IF b \in {"second_right", "second_both"} THEN {<<zz + 2, yy, xx>>} ELSE {})

(* the store subscript with the column written as 0.                     *)
write_cell_col0(zz, yy, xx) == <<zz, yy, 0>>

(* the subscript of the store result[z,y,x] = int(new_value) *)
write_cell(zz, yy, xx) == <<zz, yy, xx>>

(* the thread of the notebook's single-threaded call *)
MainThread == 0

(* no iteration has run yet *)
NoAccess == [by |-> MainThread, wrote |-> <<>>, read |-> {}]

(* ------------------------------ the call ------------------------------- *)

Init ==
    /\ \/ \E s \in Shapes : shape = s /\ arr \in [Cells(s) -> Vals] /\ no_data \in NoDataVals
       \/ shape = <<7, 1, 1>> /\ arr = ExampleVolume /\ no_data = DefaultNoData
    /\ result = zeros_like(shape)
    /\ x = 0 /\ y = 0 /\ z = 0
    /\ pc = "loop"
    /\ writes = [c \in Cells(shape) |-> 0]
    /\ out = None
    /\ prev = None
    /\ calls = 1
    /\ dtype = ResultBits
    /\ result_dtype = ResultBits
    /\ access = NoAccess
    /\ tile = [t \in Traces(shape) |-> MainThread]
    /\ wpos = None

(* A call on an array of a wider integer type (the notebook's test_arr   *)
(* is a platform-int array), with samples and sentinels that may need    *)
(* more than 16 bits.                                                     *)
InitWide ==
    /\ \E s \in Shapes :
          shape = s /\ arr \in [Cells(s) -> WideVals] /\ no_data \in WideNoDataVals
    /\ dtype \in WideDtypes
    /\ result = zeros_like(shape)
    /\ x = 0 /\ y = 0 /\ z = 0
    /\ pc = "loop"
    /\ writes = [c \in Cells(shape) |-> 0]
    /\ out = None
    /\ prev = None
    /\ calls = 1
    /\ result_dtype = ResultBits
    /\ access = NoAccess
    /\ tile = [t \in Traces(shape) |-> MainThread]
    /\ wpos = None

(* LoopBody filling in place: neighbours are read from the samples       *)
(* already stored in this pass where there are any.                      *)
LoopBody_inplace ==
    /\ pc = "loop"
    /\ LET seen == [c \in Cells(shape) |-> IF writes[c] > 0 THEN result[c] ELSE arr[c]]
       IN  result' = [result EXCEPT ![write_cell(z, y, x)] =
                          astype_int16(new_value(seen, shape, no_data, z, y, x))]
    /\ writes' = [writes EXCEPT ![write_cell(z, y, x)] = @ + 1]
    /\ access' = [by |-> MainThread, wrote |-> write_cell(z, y, x),
                  read |-> read_cells(arr, shape, no_data, z, y, x)]
    /\ IF z + 1 < shape[1]
       THEN z' = z + 1 /\ UNCHANGED <<y, x, pc>>
       ELSE IF y + 1 < shape[2]
       THEN z' = 0 /\ y' = y + 1 /\ UNCHANGED <<x, pc>>
       ELSE IF x + 1 < shape[3]
       THEN z' = 0 /\ y' = 0 /\ x' = x + 1 /\ UNCHANGED pc
       ELSE z' = 0 /\ y' = 0 /\ x' = 0 /\ pc' = "return"
    /\ UNCHANGED <<arr, shape, no_data, out, prev, calls, dtype, result_dtype, tile, wpos>>

(* LoopBody with result being arr itself instead of a new array: the     *)
(* store goes to the input as well.                                       *)
LoopBody_aliased ==
    /\ pc = "loop"
    /\ result' = [result EXCEPT ![write_cell(z, y, x)] =
                      astype_int16(new_value(arr, shape, no_data, z, y, x))]
    /\ arr' = [arr EXCEPT ![write_cell(z, y, x)] =
                      astype_int16(new_value(arr, shape, no_data, z, y, x))]
    /\ writes' = [writes EXCEPT ![write_cell(z, y, x)] = @ + 1]
    /\ access' = [by |-> MainThread, wrote |-> write_cell(z, y, x),
                  read |-> read_cells(arr, shape, no_data, z, y, x)]
    /\ IF z + 1 < shape[1]
       THEN z' = z + 1 /\ UNCHANGED <<y, x, pc>>
       ELSE IF y + 1 < shape[2]
       THEN z' = 0 /\ y' = y + 1 /\ UNCHANGED <<x, pc>>
       ELSE IF x + 1 < shape[3]
       THEN z' = 0 /\ y' = 0 /\ x' = x + 1 /\ UNCHANGED pc
       ELSE z' = 0 /\ y' = 0 /\ x' = 0 /\ pc' = "return"
    /\ UNCHANGED <<shape, no_data, out, prev, calls, dtype, result_dtype, tile, wpos>>

(* LoopBody with the z loop one iteration short (range(T - 1)).           *)
LoopBody_short ==
    /\ pc = "loop"
    /\ result' = [result EXCEPT ![write_cell(z, y, x)] =
                      astype_int16(new_value(arr, shape, no_data, z, y, x))]
    /\ writes' = [writes EXCEPT ![write_cell(z, y, x)] = @ + 1]
    /\ access' = [by |-> MainThread, wrote |-> write_cell(z, y, x),
                  read |-> read_cells(arr, shape, no_data, z, y, x)]
    /\ IF z + 1 < shape[1] - 1
       THEN z' = z + 1 /\ UNCHANGED <<y, x, pc>>
       ELSE IF y + 1 < shape[2]
       THEN z' = 0 /\ y' = y + 1 /\ UNCHANGED <<x, pc>>
       ELSE IF x + 1 < shape[3]
       THEN z' = 0 /\ y' = 0 /\ x' = x + 1 /\ UNCHANGED pc
       ELSE z' = 0 /\ y' = 0 /\ x' = 0 /\ pc' = "return"
    /\ UNCHANGED <<arr, shape, no_data, out, prev, calls, dtype, result_dtype, tile, wpos>>

(* One iteration of "for z in range(arr.shape[0])" inside the y and x     *)
(* loops: compute new_value from arr, store it, advance z, then y, then x. *)
LoopBody ==
    /\ pc = "loop"
    /\ result' = [result EXCEPT ![write_cell(z, y, x)] =
                      astype_int16(new_value(arr, shape, no_data, z, y, x))]
    /\ writes' = [writes EXCEPT ![write_cell(z, y, x)] = @ + 1]
    /\ access' = [by |-> MainThread, wrote |-> write_cell(z, y, x),
                  read |-> read_cells(arr, shape, no_data, z, y, x)]
    /\ IF z + 1 < shape[1]
       THEN z' = z + 1 /\ UNCHANGED <<y, x, pc>>
       ELSE IF y + 1 < shape[2]
       THEN z' = 0 /\ y' = y + 1 /\ UNCHANGED <<x, pc>>
       ELSE IF x + 1 < shape[3]
       THEN z' = 0 /\ y' = 0 /\ x' = x + 1 /\ UNCHANGED pc
       ELSE z' = 0 /\ y' = 0 /\ x' = 0 /\ pc' = "return"
    /\ UNCHANGED <<arr, shape, no_data, out, prev, calls, dtype, result_dtype, tile, wpos>>

(* return result *)
Return ==
    /\ pc = "return"
    /\ out' = result
    /\ pc' = "done"
    /\ UNCHANGED <<arr, shape, no_data, result, x, y, z, writes, prev, calls,
                   dtype, result_dtype, access, tile, wpos>>

(* The caller runs interpolate_numba again on the same array: a fresh     *)
(* result is allocated and the loops start over.                          *)
Call ==
    /\ pc = "done"
    /\ calls < MaxCalls
    /\ calls' = calls + 1
    /\ prev' = out
    /\ out' = None
    /\ result' = zeros_like(shape)
    /\ writes' = [c \in Cells(shape) |-> 0]
    /\ x' = 0 /\ y' = 0 /\ z' = 0
    /\ pc' = "loop"
    /\ result_dtype' = ResultBits
    /\ access' = NoAccess
    /\ UNCHANGED <<arr, shape, no_data, dtype, tile, wpos>>

Next == LoopBody \/ Return \/ Call

Spec == Init /\ [][Next]_vars

(* the call runs on: an enabled loop iteration or return is taken *)
SpecFair == Spec /\ WF_vars(LoopBody) /\ WF_vars(Return)

SpecWide == InitWide /\ [][Next]_vars

(* ---------------------------- a tiled run ------------------------------ *)
(* The (row, column) space is split into disjoint tiles, one per worker;  *)
(* each worker runs the loop body over the traces of its tile, in the     *)
(* order of the triple loop, and the workers' iterations interleave in    *)
(* any way.  The output is returned after all workers have finished.      *)
Workers == 1..NumWorkers

(* position of a cell in the order of the triple loop: x, then y, then z *)
LoopIndex(s, c) == (c[3] * s[2] + c[2]) * s[1] + c[1]

TileTraces(w) == {t \in Traces(shape) : tile[t] = w}

(* number of cells of worker w's tile *)
TileSize(w) == Cardinality(TileTraces(w)) * shape[1]

(* the n-th cell (from 0) of worker w's tile in loop order: the traces of *)
(* the tile in loop order, each from z = 0 to z = T-1                     *)
NthCell(w, n) ==
    LET t == CHOOSE t \in TileTraces(w) :
                 Cardinality({u \in TileTraces(w) :
                     LoopIndex(shape, <<0, u[1], u[2]>>) < LoopIndex(shape, <<0, t[1], t[2]>>)})
                 = n \div shape[1]
    IN  <<n % shape[1], t[1], t[2]>>

(* volumes with an interior sample, split among the workers in any way *)
InitWorkers ==
    /\ \E s \in {s \in Shapes : s[1] >= 3} :
          /\ shape = s /\ arr \in [Cells(s) -> Vals] /\ no_data \in NoDataVals
          /\ tile \in [Traces(s) -> Workers]
          /\ tile[<<0, 0>>] = 1      \* workers are interchangeable
    /\ wpos = [w \in Workers |-> 0]
    /\ dtype = ResultBits
    /\ result = zeros_like(shape)
    /\ x = 0 /\ y = 0 /\ z = 0
    /\ pc = "workers"
    /\ writes = [c \in Cells(shape) |-> 0]
    /\ out = None
    /\ prev = None
    /\ calls = 1
    /\ result_dtype = ResultBits
    /\ access = NoAccess

(* worker w runs the loop body on the next cell of its tile *)
WorkerBody(w) ==
    /\ pc = "workers"
    /\ wpos[w] < TileSize(w)
    /\ LET c == NthCell(w, wpos[w])
           target == write_cell(c[1], c[2], c[3])
       IN  /\ result' = [result EXCEPT ![target] =
                   astype_int16(new_value(arr, shape, no_data, c[1], c[2], c[3]))]
           /\ writes' = [writes EXCEPT ![target] = @ + 1]
           /\ access' = [by |-> w, wrote |-> target,
                         read |-> read_cells(arr, shape, no_data, c[1], c[2], c[3])]
    /\ wpos' = [wpos EXCEPT ![w] = @ + 1]
    /\ UNCHANGED <<arr, shape, no_data, x, y, z, pc, out, prev, calls,
                   dtype, result_dtype, tile>>

(* the join at completion: every worker has finished its tile *)
Join ==
    /\ pc = "workers"
    /\ \A w \in Workers : wpos[w] = TileSize(w)
    /\ pc' = "return"
    /\ UNCHANGED <<arr, shape, no_data, result, x, y, z, writes, out, prev, calls,
                   dtype, result_dtype, access, tile, wpos>>

NextWorkers == (\E w \in Workers : WorkerBody(w)) \/ Join \/ Return

SpecWorkers == InitWorkers /\ [][NextWorkers]_vars

(* ------------------------- notation of the claims ---------------------- *)
T == shape[1]
Rows == 0..(shape[2] - 1)
Cols == 0..(shape[3] - 1)
Written(zz, yy, xx) == writes[<<zz, yy, xx>>] > 0
In(zz, yy, xx) == arr[<<zz, yy, xx>>]
Out(zz, yy, xx) == result[<<zz, yy, xx>>]
Gap(zz, yy, xx) == zz \in 0..(T - 1) /\ In(zz, yy, xx) = no_data
Valid(zz, yy, xx) == zz \in 0..(T - 1) /\ In(zz, yy, xx) # no_data
(* m is the floor of n / 2 *)
IsFloorHalf(m, n) == 2 * m <= n /\ n < 2 * m + 2
BranchAt(zz, yy, xx) == branch(arr, shape, no_data, zz, yy, xx)

(* C1: boundary invariance.  In every trace the first and the last sample *)
(* of the output equal the first and the last sample of the input, also   *)
(* when they equal the sentinel, whatever their neighbours are.           *)
BoundaryInvariance ==
    /\ \A yy \in Rows, xx \in Cols :
          /\ Written(0, yy, xx) => Out(0, yy, xx) = In(0, yy, xx)
          /\ Written(T - 1, yy, xx) => Out(T - 1, yy, xx) = In(T - 1, yy, xx)
    /\ pc = "done" => \A yy \in Rows, xx \in Cols :
          /\ out[<<0, yy, xx>>] = In(0, yy, xx)
          /\ out[<<T - 1, yy, xx>>] = In(T - 1, yy, xx)

(* a returned trace of length >= 3 whose two boundary samples are the     *)
(* sentinel while the sample next to each of them is valid                *)
WitnessBoundary ==
    /\ pc = "done" /\ T >= 3
    /\ \E yy \in Rows, xx \in Cols :
          /\ Gap(0, yy, xx) /\ Gap(T - 1, yy, xx)
          /\ Valid(1, yy, xx) /\ Valid(T - 2, yy, xx)
          /\ out[<<0, yy, xx>>] = no_data /\ out[<<T - 1, yy, xx>>] = no_data

(* C2: non-gap invariance.  Every sample that is not the sentinel is      *)
(* output unchanged, so a trace without any sentinel is returned as is.   *)
NonGapInvariance ==
    /\ \A zz \in 0..(T - 1), yy \in Rows, xx \in Cols :
          (Written(zz, yy, xx) /\ Valid(zz, yy, xx)) => Out(zz, yy, xx) = In(zz, yy, xx)
    /\ pc = "done" => \A yy \in Rows, xx \in Cols :
          (\A zz \in 0..(T - 1) : Valid(zz, yy, xx))
              => \A zz \in 0..(T - 1) : out[<<zz, yy, xx>>] = In(zz, yy, xx)

(* a returned clean trace with an interior sample below the sentinel and  *)
(* unequal neighbours                                                     *)
WitnessNonGap ==
    /\ pc = "done" /\ T >= 3
    /\ \E yy \in Rows, xx \in Cols :
          /\ \A zz \in 0..(T - 1) : Valid(zz, yy, xx)
          /\ In(1, yy, xx) < no_data
          /\ In(0, yy, xx) + In(2, yy, xx) # 2 * In(1, yy, xx)
          /\ out[<<1, yy, xx>>] = In(1, yy, xx)

(* C3: a single isolated gap resolves exactly.  An interior sentinel with *)
(* both immediate neighbours valid is replaced by the floor of their      *)
(* mean, for negative values and odd sums too.                            *)
SingleGapExact ==
    \A zz \in 1..(T - 2), yy \in Rows, xx \in Cols :
        (/\ Written(zz, yy, xx) /\ Gap(zz, yy, xx)
         /\ Valid(zz - 1, yy, xx) /\ Valid(zz + 1, yy, xx))
            => IsFloorHalf(Out(zz, yy, xx), In(zz - 1, yy, xx) + In(zz + 1, yy, xx))

(* a filled single gap whose neighbours have a negative odd sum           *)
WitnessSingleGap ==
    \E zz \in 1..(T - 2), yy \in Rows, xx \in Cols :
        /\ Written(zz, yy, xx) /\ Gap(zz, yy, xx)
        /\ Valid(zz - 1, yy, xx) /\ Valid(zz + 1, yy, xx)
        /\ In(zz - 1, yy, xx) + In(zz + 1, yy, xx) < 0
        /\ (In(zz - 1, yy, xx) + In(zz + 1, yy, xx)) % 2 = 1
        /\ Out(zz, yy, xx) # no_data

(* C4: a two-sample gap [a, sentinel, sentinel, b] is filled at both      *)
(* positions with the floor of the mean of a and b: the first sample by   *)
(* the look-right branch, the second by the look-left branch.             *)
TwoGapResolves ==
    \A zz \in 1..(T - 3), yy \in Rows, xx \in Cols :
        (/\ Written(zz, yy, xx) /\ Written(zz + 1, yy, xx)
         /\ Valid(zz - 1, yy, xx) /\ Gap(zz, yy, xx)
         /\ Gap(zz + 1, yy, xx) /\ Valid(zz + 2, yy, xx))
            => /\ IsFloorHalf(Out(zz, yy, xx), In(zz - 1, yy, xx) + In(zz + 2, yy, xx))
               /\ Out(zz + 1, yy, xx) = Out(zz, yy, xx)
               /\ BranchAt(zz, yy, xx) = "second_right"
               /\ BranchAt(zz + 1, yy, xx) = "second_left"

(* a two-sample gap between unequal valid samples, both positions written *)
WitnessTwoGap ==
    \E zz \in 1..(T - 3), yy \in Rows, xx \in Cols :
        /\ Written(zz, yy, xx) /\ Written(zz + 1, yy, xx)
        /\ Valid(zz - 1, yy, xx) /\ Gap(zz, yy, xx)
        /\ Gap(zz + 1, yy, xx) /\ Valid(zz + 2, yy, xx)
        /\ In(zz - 1, yy, xx) # In(zz + 2, yy, xx)
        /\ Out(zz, yy, xx) # no_data /\ Out(zz + 1, yy, xx) # no_data

(* C5: the worked example.  With sentinel -32768 the trace                *)
(* [5, s, 7, s, s, 9, s] is mapped to [5, 6, 7, 8, 8, 9, s].              *)
ExampleOutput == <<5, 6, 7, 8, 8, 9, DefaultNoData>>

WorkedExample ==
    (pc = "done" /\ arr = ExampleVolume /\ no_data = DefaultNoData)
        => out = [c \in Cells(<<7, 1, 1>>) |-> ExampleOutput[c[1] + 1]]

(* the call on the worked trace has returned                              *)
WitnessWorkedExample ==
    /\ pc = "done" /\ shape = <<7, 1, 1>>
    /\ \A i \in 1..7 : arr[<<i - 1, 0, 0>>] = ExampleTrace[i]
    /\ no_data = DefaultNoData
    /\ out[<<3, 0, 0>>] = 8 /\ out[<<4, 0, 0>>] = 8
(* C6: no room for a 2-step lookup next to a boundary.  A sentinel at    *)
(* z == 1 whose left neighbour is the sentinel, and a sentinel at         *)
(* z == T-2 whose right neighbour is the sentinel, stay the sentinel      *)
(* whatever the neighbour on the other side is.                           *)
UnresolvedNextToBoundary ==
    \A yy \in Rows, xx \in Cols :
        /\ (Gap(1, yy, xx) /\ Gap(0, yy, xx) /\ Written(1, yy, xx))
               => Out(1, yy, xx) = no_data
        /\ (Gap(T - 2, yy, xx) /\ Gap(T - 1, yy, xx) /\ Written(T - 2, yy, xx))
               => Out(T - 2, yy, xx) = no_data

(* a returned trace [s, s, v, .., v, s, s]: both cases with a valid       *)
(* neighbour on the other side                                            *)
WitnessNextToBoundary ==
    /\ pc = "done" /\ T >= 6
    /\ \E yy \in Rows, xx \in Cols :
          /\ Gap(0, yy, xx) /\ Gap(1, yy, xx) /\ Valid(2, yy, xx)
          /\ Valid(T - 3, yy, xx) /\ Gap(T - 2, yy, xx) /\ Gap(T - 1, yy, xx)
          /\ out[<<1, yy, xx>>] = no_data /\ out[<<T - 2, yy, xx>>] = no_data

(* C7: one-sided 2-hop lookup.  For an interior sentinel with exactly one *)
(* immediate neighbour equal to the sentinel and a sample two steps away  *)
(* on that side: if that sample is the sentinel the output is the         *)
(* sentinel, otherwise it is the floor mean of that sample and the valid  *)
(* immediate neighbour on the other side.                                 *)
OneSidedLookup ==
    \A zz \in 1..(T - 2), yy \in Rows, xx \in Cols :
        (Gap(zz, yy, xx) /\ Written(zz, yy, xx)) =>
            /\ (zz >= 2 /\ Gap(zz - 1, yy, xx) /\ Valid(zz + 1, yy, xx)) =>
                   IF Gap(zz - 2, yy, xx)
                   THEN Out(zz, yy, xx) = no_data
                   ELSE IsFloorHalf(Out(zz, yy, xx),
                                    In(zz - 2, yy, xx) + In(zz + 1, yy, xx))
            /\ (zz <= T - 3 /\ Valid(zz - 1, yy, xx) /\ Gap(zz + 1, yy, xx)) =>
                   IF Gap(zz + 2, yy, xx)
                   THEN Out(zz, yy, xx) = no_data
                   ELSE IsFloorHalf(Out(zz, yy, xx),
                                    In(zz + 2, yy, xx) + In(zz - 1, yy, xx))

(* a written sentinel whose left neighbour and second left neighbour are  *)
(* sentinels while the right neighbour is valid: the lookup fails         *)
WitnessOneSidedFails ==
    \E zz \in 2..(T - 2), yy \in Rows, xx \in Cols :
        /\ Gap(zz, yy, xx) /\ Written(zz, yy, xx)
        /\ Gap(zz - 1, yy, xx) /\ Gap(zz - 2, yy, xx) /\ Valid(zz + 1, yy, xx)
        /\ In(zz + 1, yy, xx) # no_data
        /\ Out(zz, yy, xx) = no_data
        /\ BranchAt(zz, yy, xx) = "second_left"

(* C8: both immediate neighbours missing.  For a sentinel at z with       *)
(* 2 <= z <= T-3 between two sentinels the output is the floor mean of    *)
(* input[z-2] and input[z+2] when both are valid and the sentinel when    *)
(* either is the sentinel.                                                *)
BothNeighboursMissing ==
    \A zz \in 2..(T - 3), yy \in Rows, xx \in Cols :
        (/\ Gap(zz, yy, xx) /\ Written(zz, yy, xx)
         /\ Gap(zz - 1, yy, xx) /\ Gap(zz + 1, yy, xx)) =>
            IF Valid(zz - 2, yy, xx) /\ Valid(zz + 2, yy, xx)
            THEN IsFloorHalf(Out(zz, yy, xx), In(zz - 2, yy, xx) + In(zz + 2, yy, xx))
            ELSE Out(zz, yy, xx) = no_data

(* a written sentinel between two sentinels with exactly one valid 2-hop  *)
(* sample                                                                 *)
WitnessBothMissing ==
    \E zz \in 2..(T - 3), yy \in Rows, xx \in Cols :
        /\ Gap(zz, yy, xx) /\ Written(zz, yy, xx)
        /\ Gap(zz - 1, yy, xx) /\ Gap(zz + 1, yy, xx)
        /\ Gap(zz - 2, yy, xx) /\ Valid(zz + 2, yy, xx)
        /\ Out(zz, yy, xx) = no_data
        /\ BranchAt(zz, yy, xx) = "second_both"

(* zz lies in n consecutive sentinel samples of its trace                 *)
InRunOf(n, zz, yy, xx) ==
    \E i \in 0..(T - n) :
        /\ i <= zz /\ zz <= i + n - 1
        /\ \A j \in i..(i + n - 1) : Gap(j, yy, xx)

(* zz is the middle sample of a maximal run of exactly three sentinels    *)
MiddleOfThree(zz, yy, xx) ==
    /\ Gap(zz - 1, yy, xx) /\ Gap(zz, yy, xx) /\ Gap(zz + 1, yy, xx)
    /\ ~Gap(zz - 2, yy, xx) /\ ~Gap(zz + 2, yy, xx)

(* C9 as stated: every sample of a run of more than 2 consecutive         *)
(* sentinels is still the sentinel in the output.                         *)
LongGapsUnresolved ==
    \A zz \in 0..(T - 1), yy \in Rows, xx \in Cols :
        (InRunOf(3, zz, yy, xx) /\ Written(zz, yy, xx)) => Out(zz, yy, xx) = no_data

(* C9: long gaps stay unresolved.  Every sample of a run of more than 2   *)
(* consecutive sentinels is still the sentinel in the output, except the  *)
(* middle sample of a run of exactly 3 that has a sample on each side,    *)
(* which is the floor mean of those two samples.                          *)
LongGapsUnresolvedButMiddle ==
    \A zz \in 0..(T - 1), yy \in Rows, xx \in Cols :
        (InRunOf(3, zz, yy, xx) /\ Written(zz, yy, xx)) =>
            IF MiddleOfThree(zz, yy, xx) /\ zz >= 2 /\ zz <= T - 3
            THEN IsFloorHalf(Out(zz, yy, xx), In(zz - 2, yy, xx) + In(zz + 2, yy, xx))
            ELSE Out(zz, yy, xx) = no_data

(* a returned trace with a run of four sentinels between valid samples    *)
WitnessLongGap ==
    /\ pc = "done"
    /\ \E zz \in 1..(T - 5), yy \in Rows, xx \in Cols :
          /\ Valid(zz - 1, yy, xx) /\ Valid(zz + 4, yy, xx)
          /\ \A j \in zz..(zz + 3) : Gap(j, yy, xx) /\ out[<<j, yy, xx>>] = no_data

TraceAlone(yy, xx) == [c \in Cells(<<T, 1, 1>>) |-> arr[<<c[1], yy, xx>>]]

(* C11: no cross-trace leakage.  The output of trace (r1, c1) is          *)
(* determined by the samples of trace (r1, c1) and the sentinel alone:    *)
(* it is what the loop body gives on that trace taken as a volume of its  *)
(* own, so two volumes that agree on the trace give the same output       *)
(* trace whatever their other traces contain.                             *)
NoCrossTraceLeakage ==
    \A zz \in 0..(T - 1), yy \in Rows, xx \in Cols :
        Written(zz, yy, xx) =>
            Out(zz, yy, xx) =
                astype_int16(new_value(TraceAlone(yy, xx), <<T, 1, 1>>, no_data, zz, 0, 0))

(* a returned volume of two or more traces: one has a filled single gap,  *)
(* another has the sentinel where the first has its left neighbour        *)
WitnessTwoTraces ==
    /\ pc = "done" /\ T >= 3
    /\ \E yy \in Rows, xx \in Cols, y2 \in Rows, x2 \in Cols :
          /\ <<yy, xx>> # <<y2, x2>>
          /\ Valid(0, yy, xx) /\ Gap(1, yy, xx) /\ Valid(2, yy, xx)
          /\ Gap(0, y2, x2) /\ Gap(1, y2, x2)
          /\ out[<<1, yy, xx>>] # no_data
          /\ out[<<1, y2, x2>>] = no_data

(* C12: shape error.  A call on a volume with time-extent below 3 fails  *)
(* before any sample is processed and the caller gets no output volume.   *)
ShapeErrorBeforeProcessing ==
    T < 3 => /\ \A c \in Cells(shape) : writes[c] = 0
             /\ pc # "return" /\ pc # "done"
             /\ out = None

(* the input or the sentinel holds a value the int16 result cannot hold   *)
Unrepresentable ==
    \/ no_data \notin Int16Min..Int16Max
    \/ \E c \in Cells(shape) : arr[c] \notin Int16Min..Int16Max

(* C13: representation error.  A call whose input or sentinel holds a     *)
(* value the output width cannot represent fails: it returns no volume    *)
(* and no stored sample differs from the value computed for it.           *)
RepresentationErrorRaised ==
    Unrepresentable =>
        /\ pc # "done"
        /\ \A zz \in 0..(T - 1), yy \in Rows, xx \in Cols :
              Written(zz, yy, xx) =>
                  Out(zz, yy, xx) = new_value(arr, shape, no_data, zz, yy, xx)

(* C14 as stated: the returned volume has the integer width of the      *)
(* input volume, for every input width.                                   *)
OutputWidthIsInputWidth ==
    pc = "done" => (DOMAIN out = Cells(shape) /\ result_dtype = dtype)

(* C14: output allocation.  The returned volume has the shape (T, R, C)   *)
(* of the input and is always a 16-bit integer array, whatever the        *)
(* integer width of the input: every returned sample lies in the int16    *)
(* range.                                                                 *)
OutputIsInt16SameShape ==
    pc = "done" =>
        /\ DOMAIN out = Cells(shape)
        /\ result_dtype = ResultBits
        /\ \A c \in Cells(shape) : out[c] \in Int16Min..Int16Max

(* a returned volume for a 64-bit input with a first sample that needs    *)
(* more than 16 bits                                                      *)
WitnessWideInput ==
    /\ pc = "done" /\ dtype = 64 /\ T >= 3
    /\ \E yy \in Rows, xx \in Cols :
          /\ In(0, yy, xx) > Int16Max
          /\ out[<<0, yy, xx>>] # In(0, yy, xx)

(* C15: no side effects on the input.  No step of a call, and no later   *)
(* call, changes a sample of the input volume, its shape or the sentinel; *)
(* the one cell a loop iteration stores to is a cell of result.           *)
InputUntouched ==
    [][/\ arr' = arr /\ shape' = shape /\ no_data' = no_data /\ dtype' = dtype
       /\ \A c \in Cells(shape) :
             result'[c] # result[c] => (pc = "done" \/ access'.wrote = c)]_vars

(* a returned volume with a filled gap whose input sample is still the    *)
(* sentinel                                                               *)
WitnessInputKept ==
    /\ pc = "done"
    /\ \E zz \in 1..(T - 2), yy \in Rows, xx \in Cols :
          /\ In(zz, yy, xx) = no_data
          /\ out[<<zz, yy, xx>>] # no_data

(* what the sequential triple loop returns on the input (see C10)        *)
SequentialOutput ==
    [c \in Cells(shape) |-> astype_int16(new_value(arr, shape, no_data, c[1], c[2], c[3]))]

(* C16: race-free partitioning.  With the traces split into disjoint      *)
(* tiles, one worker per tile, under any interleaving: no output cell is  *)
(* written twice, every iteration reads and writes only cells of one      *)
(* trace of the running worker's own tile (so no worker reads or writes   *)
(* a cell another worker writes), and the output returned after the join  *)
(* is that of the sequential triple loop.                                 *)
RaceFreePartitioning ==
    /\ \A c \in Cells(shape) : writes[c] <= 1
    /\ access # NoAccess =>
          /\ access.wrote \in Cells(shape)
          /\ tile[<<access.wrote[2], access.wrote[3]>>] = access.by
          /\ \A r \in access.read :
                /\ r[2] = access.wrote[2] /\ r[3] = access.wrote[3]
                /\ tile[<<r[2], r[3]>>] = access.by
    /\ pc = "done" => out = SequentialOutput

(* a returned volume whose traces were filled by two different workers,   *)
(* each with a filled gap                                                 *)
WitnessTwoWorkers ==
    /\ pc = "done"
    /\ \E t1 \in Traces(shape), t2 \in Traces(shape) :
          /\ tile[t1] # tile[t2]
          /\ Gap(1, t1[1], t1[2]) /\ out[<<1, t1[1], t1[2]>>] # no_data
          /\ Gap(1, t2[1], t2[2]) /\ out[<<1, t2[1], t2[2]>>] # no_data

(* C17: single full pass.  The triple loop terminates (a call in its     *)
(* loop always gets to return its result), no cell is ever stored to      *)
(* twice, and when the loop is over every cell of result has been stored  *)
(* to exactly once.                                                       *)
SingleFullPass ==
    /\ [](\A c \in Cells(shape) :
            /\ writes[c] <= 1
            /\ (pc \in {"return", "done"}) => writes[c] = 1)
    /\ ((pc = "loop") ~> (pc = "done"))

(* a returned volume of several traces, every cell stored to once         *)
WitnessFullPass ==
    /\ pc = "done" /\ T >= 3 /\ Cardinality(Traces(shape)) >= 2
    /\ \A c \in Cells(shape) : writes[c] = 1 /\ out[c] = result[c]

(* C18: reads stay inside the trace.  For every time-extent from 1 up,   *)
(* every subscript a loop iteration reads arr at (z, z-1, z+1, z-2, z+2)  *)
(* lies in 0..T-1 as written: none is negative and none exceeds T-1.      *)
ReadsInsideTrace ==
    \A r \in access.read : r[1] >= 0 /\ r[1] <= T - 1 /\ r \in Cells(shape)

(* the iteration at z = 2 has read the first sample as its second left    *)
(* neighbour, after the iteration at z = 1 stopped at the z == 1 test     *)
WitnessTwoHopRead ==
    /\ access.wrote # <<>> /\ access.wrote[1] = 2
    /\ <<0, access.wrote[2], access.wrote[3]>> \in access.read
    /\ Gap(0, access.wrote[2], access.wrote[3])
    /\ Gap(1, access.wrote[2], access.wrote[3])
    /\ Out(1, access.wrote[2], access.wrote[3]) = no_data

(* the nearest of the two samples on a side of zz that is not the         *)
(* sentinel (the farther one when neither is)                             *)
NearLeft(zz, yy, xx) == IF Valid(zz - 1, yy, xx) THEN zz - 1 ELSE zz - 2
NearRight(zz, yy, xx) == IF Valid(zz + 1, yy, xx) THEN zz + 1 ELSE zz + 2
Between(v, a, b) == (a <= v /\ v <= b) \/ (b <= v /\ v <= a)

(* C19: filled values stay in range.  Every value stored in place of a    *)
(* sentinel is the floor mean of one valid sample out of {z-1, z-2} and   *)
(* one out of {z+1, z+2} and lies between the two; with every input       *)
(* sample in the int16 range every stored value is in that range and is   *)
(* the computed value unchanged by the cast.                              *)
FilledValuesInRange ==
    \A zz \in 0..(T - 1), yy \in Rows, xx \in Cols :
        Written(zz, yy, xx) =>
            /\ Out(zz, yy, xx) = new_value(arr, shape, no_data, zz, yy, xx)
            /\ Out(zz, yy, xx) \in Int16Min..Int16Max
            /\ (Gap(zz, yy, xx) /\ Out(zz, yy, xx) # no_data) =>
                  LET l == NearLeft(zz, yy, xx)
                      r == NearRight(zz, yy, xx)
                  IN  /\ Valid(l, yy, xx) /\ Valid(r, yy, xx)
                      /\ IsFloorHalf(Out(zz, yy, xx), In(l, yy, xx) + In(r, yy, xx))
                      /\ Between(Out(zz, yy, xx), In(l, yy, xx), In(r, yy, xx))

(* a gap filled from a second left neighbour and a first right neighbour  *)
(* of different values                                                    *)
WitnessFilledInRange ==
    \E zz \in 2..(T - 2), yy \in Rows, xx \in Cols :
        /\ Written(zz, yy, xx) /\ Gap(zz, yy, xx) /\ Gap(zz - 1, yy, xx)
        /\ Valid(zz - 2, yy, xx) /\ Valid(zz + 1, yy, xx)
        /\ In(zz - 2, yy, xx) # In(zz + 1, yy, xx)
        /\ Out(zz, yy, xx) # no_data
        /\ Out(zz, yy, xx) # In(zz - 2, yy, xx) /\ Out(zz, yy, xx) # In(zz + 1, yy, xx)

(* C20: only short runs are touched.  An output sample differs from the   *)
(* input sample only at a sentinel whose maximal run of sentinels has     *)
(* length at most 3; every sample of a run of 4 or more is output         *)
(* unchanged, and in a run of exactly 3 only the middle sample can be     *)
(* replaced.                                                              *)
OnlyShortRunsTouched ==
    \A zz \in 0..(T - 1), yy \in Rows, xx \in Cols :
        (Written(zz, yy, xx) /\ Out(zz, yy, xx) # In(zz, yy, xx)) =>
            /\ Gap(zz, yy, xx)
            /\ ~InRunOf(4, zz, yy, xx)
            /\ InRunOf(3, zz, yy, xx) => MiddleOfThree(zz, yy, xx)

(* a returned trace with a run of exactly three sentinels: the middle one *)
(* is replaced, the outer two are kept                                    *)
WitnessRunOfThree ==
    /\ pc = "done"
    /\ \E zz \in 2..(T - 3), yy \in Rows, xx \in Cols :
          /\ MiddleOfThree(zz, yy, xx)
          /\ Valid(zz - 2, yy, xx) /\ Valid(zz + 2, yy, xx)
          /\ out[<<zz, yy, xx>>] # no_data
          /\ out[<<zz - 1, yy, xx>>] = no_data /\ out[<<zz + 1, yy, xx>>] = no_data

====
